---- MODULE Spec2Model ----
(***************************************************************************)
(* stonesoup/types/hypothesis.py: Hypothesis, DistanceHypothesis,          *)
(* JointHypothesis and DistanceJointHypothesis as a heap of objects and    *)
(* the operations a caller can apply to them.                              *)
(*                                                                         *)
(* Numbers are exact integers: the rounding of Python floats (and NaN) is  *)
(* outside this model.                                                     *)
(***************************************************************************)
EXTENDS Integers, Sequences, FiniteSets, TLC

VARIABLES
    hyps,    \* heap of Hypothesis objects, in order of allocation
    dicts,   \* heap of dict objects: each a sequence of <<track, hypothesis ref>>
             \* in insertion order, with no track twice
    joints,  \* heap of JointHypothesis objects
    last     \* the last call: [op, args, raised, ret]

vars == <<hyps, dicts, joints, last>>

---------------------------------------------------------------------------
(* Bounds and inputs *)

MaxHyps == 3      \* hypotheses a caller of OrderSpec allocates
MaxJoints == 1    \* joint hypotheses a caller of Spec allocates

\* A Python float: a number, here an exact integer, or NaN.
Float(n) == [nan |-> FALSE, v |-> n]
NaN == [nan |-> TRUE, v |-> 0]
IsNaN(x) == x.nan

Distances == {NaN, Float(-1), Float(0), Float(1)}
Tracks == {"t1", "t2"}

\* prediction, innovation, detection: opaque to every method of the file
Payloads == { [prediction |-> "x", innovation |-> "y", detection |-> "z"] }

None == "None"

Ok(v) == [raised |-> "", ret |-> v]
Raise(e) == [raised |-> e, ret |-> None]

Call(op, args, r) == [op |-> op, args |-> args, raised |-> r.raised, ret |-> r.ret]

\* References: <<"h", i>> is hyps[i], <<"j", i>> is joints[i].
HRef(i) == <<"h", i>>
JRef(i) == <<"j", i>>
HRefs == { HRef(i) : i \in 1..Len(hyps) }
JRefs == { JRef(i) : i \in 1..Len(joints) }
Objects == HRefs \cup JRefs

---------------------------------------------------------------------------
(* Python's float operators: every ordered comparison with NaN, and ==,    *)
(* is False; a sum with NaN is NaN.                                        *)

FloatLt(x, y) == ~x.nan /\ ~y.nan /\ x.v < y.v
FloatLe(x, y) == ~x.nan /\ ~y.nan /\ x.v <= y.v
FloatEq(x, y) == ~x.nan /\ ~y.nan /\ x.v = y.v
FloatGt(x, y) == ~x.nan /\ ~y.nan /\ x.v > y.v
FloatGe(x, y) == ~x.nan /\ ~y.nan /\ x.v >= y.v
FloatNe(x, y) == ~FloatEq(x, y)
FloatOp(op, x, y) ==
    CASE op = "<" -> FloatLt(x, y)
      [] op = "<=" -> FloatLe(x, y)
      [] op = "==" -> FloatEq(x, y)
      [] op = ">" -> FloatGt(x, y)
      [] op = ">=" -> FloatGe(x, y)
FloatAdd(x, y) == IF x.nan \/ y.nan THEN NaN ELSE Float(x.v + y.v)

---------------------------------------------------------------------------
(* Hypothesis and DistanceHypothesis *)

\* A Hypothesis of a scoring variant other than DistanceHypothesis: it has the
\* three properties of the base class and no distance.
Hypothesis(p) ==
    [cls |-> "Hypothesis", prediction |-> p.prediction,
     innovation |-> p.innovation, detection |-> p.detection]

\* A constructor that rejects a negative distance.
DistanceHypothesisChecked(p, d) ==
    IF FloatLt(d, Float(0))
    THEN Raise("InvalidScore")
    ELSE Ok([cls |-> "DistanceHypothesis", prediction |-> p.prediction,
             innovation |-> p.innovation, detection |-> p.detection,
             distance |-> d])

\* DistanceHypothesis(prediction, innovation, detection, distance): the four
\* declared properties are stored as given; Property(float) states no range.
DistanceHypothesis(p, d) ==
    Ok([cls |-> "DistanceHypothesis", prediction |-> p.prediction,
        innovation |-> p.innovation, detection |-> p.detection,
        distance |-> d])

\* isinstance(hyps[h], DistanceHypothesis)
IsDistanceHypothesis(h) == hyps[h].cls = "DistanceHypothesis"

---------------------------------------------------------------------------
(* dict: the items in insertion order *)

DictKeys(d) == [i \in 1..Len(d) |-> d[i][1]]
DictValues(d) == [i \in 1..Len(d) |-> d[i][2]]
DictHas(d, k) == \E i \in 1..Len(d) : d[i][1] = k
DictIndex(d, k) == CHOOSE i \in 1..Len(d) : d[i][1] = k
DictGet(d, k) == d[DictIndex(d, k)][2]
DictSet(d, k, v) ==
    IF DictHas(d, k) THEN [d EXCEPT ![DictIndex(d, k)] = <<k, v>>]
    ELSE Append(d, <<k, v>>)
DictDel(d, k) == SelectSeq(d, LAMBDA e : e[1] # k)

\* The dicts a caller can build over the tracks and the hypotheses allocated
\* so far, in every insertion order.
DictLiterals ==
    LET n == Cardinality(Tracks)
        E == Tracks \X (1..Len(hyps))
    IN { d \in UNION { [1..m -> E] : m \in 0..n } :
            \A i, j \in 1..Len(d) : i # j => d[i][1] # d[j][1] }

---------------------------------------------------------------------------
(* DistanceJointHypothesis.distance and attribute access *)

\* sum(iterable): start at 0 and add the items from left to right
RECURSIVE SumFrom(_, _)
SumFrom(acc, s) ==
    IF s = <<>> THEN acc ELSE SumFrom(FloatAdd(acc, Head(s)), Tail(s))

\* A sum over the distinct values: an item equal to an earlier one adds nothing.
sumDistinct(s) ==
    SumFrom(Float(0), [i \in 1..Len(s) |->
                          IF \E j \in 1..(i - 1) : s[j] = s[i] THEN Float(0)
                          ELSE s[i]])

sum(s) == SumFrom(Float(0), s)

\* hypothesis.distance of a heap hypothesis
HypothesisDistance(h) ==
    IF "distance" \in DOMAIN hyps[h] THEN Ok(hyps[h].distance)
    ELSE Raise("AttributeError")

\* DistanceJointHypothesis.distance: the generator yields hypothesis.distance
\* for each value of self.data; a failing access raises out of sum.
DistanceJointHypothesis_distance(j) ==
    LET vs == DictValues(dicts[joints[j].data])
    IN IF \E i \in 1..Len(vs) : HypothesisDistance(vs[i]).raised # ""
       THEN Raise("AttributeError")
       ELSE Ok(sum([i \in 1..Len(vs) |-> hyps[vs[i]].distance]))

\* o.distance for any object o
GetDistance(o) ==
    IF o[1] = "h" THEN HypothesisDistance(o[2])
    ELSE DistanceJointHypothesis_distance(o[2])

---------------------------------------------------------------------------
(* The five comparisons of DistanceHypothesis and DistanceJointHypothesis *)

\* self.distance <op> other.distance: self.distance is read first, and a
\* failing attribute access raises before anything is compared.
CompareDistances(self, op, other) ==
    LET a == GetDistance(self)
        b == GetDistance(other)
    IN IF a.raised # "" THEN a
       ELSE IF b.raised # "" THEN b
       ELSE Ok(FloatOp(op, a.ret, b.ret))

\* The class of an object
ClassOf(o) == IF o[1] = "h" THEN hyps[o[2]].cls ELSE joints[o[2]].cls

\* A __lt__ that refuses an operand of another class.
DistanceHypothesis__lt__SameClass(self, other) ==
    IF ClassOf(other) # ClassOf(self) THEN Raise("TypeMismatch")
    ELSE CompareDistances(self, ">", other)

DistanceHypothesis__lt__(self, other) == CompareDistances(self, ">", other)
DistanceHypothesis__le__(self, other) == CompareDistances(self, ">=", other)
DistanceHypothesis__eq__(self, other) == CompareDistances(self, "==", other)

\* A __gt__ that compares the distances in their numeric order.
DistanceHypothesis__gt__Numeric(self, other) ==
    CompareDistances(self, ">", other)

DistanceHypothesis__gt__(self, other) == CompareDistances(self, "<", other)

\* A __ge__ that is strict.
DistanceHypothesis__ge__Strict(self, other) ==
    CompareDistances(self, "<", other)

DistanceHypothesis__ge__(self, other) == CompareDistances(self, "<=", other)

DistanceJointHypothesis__lt__(self, other) == CompareDistances(self, ">", other)
DistanceJointHypothesis__le__(self, other) == CompareDistances(self, ">=", other)
DistanceJointHypothesis__eq__(self, other) == CompareDistances(self, "==", other)

\* A __gt__ of the joint hypothesis in the numeric order of the sums.
DistanceJointHypothesis__gt__Numeric(self, other) ==
    CompareDistances(self, ">", other)

DistanceJointHypothesis__gt__(self, other) == CompareDistances(self, "<", other)
DistanceJointHypothesis__ge__(self, other) == CompareDistances(self, "<=", other)

\* The objects whose class defines the comparisons: a DistanceHypothesis or a
\* DistanceJointHypothesis (the base classes declare them abstract).
Comparable(o) == IF o[1] = "h" THEN IsDistanceHypothesis(o[2]) ELSE TRUE

---------------------------------------------------------------------------
(* JointHypothesis: construction and the mapping operations of UserDict *)

\* A __new__ that refuses an empty mapping.
JointHypothesis__new__NonEmpty(hypotheses) ==
    IF hypotheses = <<>> THEN Raise("EmptyAssignment")
    ELSE IF \A i \in 1..Len(hypotheses) : IsDistanceHypothesis(hypotheses[i][2])
    THEN Ok("DistanceJointHypothesis")
    ELSE Raise("NotImplementedError")

\* A __new__ that tells a mixed mapping from one of another family.
JointHypothesis__new__Mixed(hypotheses) ==
    IF \A i \in 1..Len(hypotheses) : IsDistanceHypothesis(hypotheses[i][2])
    THEN Ok("DistanceJointHypothesis")
    ELSE IF \E i \in 1..Len(hypotheses) : IsDistanceHypothesis(hypotheses[i][2])
    THEN Raise("MixedHypothesisFamily")
    ELSE Raise("NotImplementedError")

\* JointHypothesis.__new__(cls, hypotheses): the class of the new object
JointHypothesis__new__(hypotheses) ==
    IF \A i \in 1..Len(hypotheses) : IsDistanceHypothesis(hypotheses[i][2])
    THEN Ok("DistanceJointHypothesis")
    ELSE Raise("NotImplementedError")

\* An __init__ that leaves self.data a dict of its own holding the same items.
JointHypothesis__init__Copy(heap, cls, hypotheses) ==
    [dicts |-> Append(heap, heap[hypotheses]),
     obj |-> [cls |-> cls, hypotheses |-> hypotheses, data |-> Len(heap) + 1]]

\* JointHypothesis.__init__(self, hypotheses): the property hypotheses is set
\* to the caller's dict and self.data = self.hypotheses, the same dict object.
JointHypothesis__init__(heap, cls, hypotheses) ==
    [dicts |-> heap,
     obj |-> [cls |-> cls, hypotheses |-> hypotheses, data |-> hypotheses]]

Data(j) == dicts[joints[j].data]

UserDict__getitem__(j, k) ==
    IF DictHas(Data(j), k) THEN Ok(HRef(DictGet(Data(j), k))) ELSE Raise("KeyError")
UserDict__contains__(j, k) == Ok(DictHas(Data(j), k))
UserDict__iter__(j) == Ok(DictKeys(Data(j)))

---------------------------------------------------------------------------
(* Actions: one per call a caller can make *)

ReadOnly == UNCHANGED <<hyps, dicts, joints>>

\* h = DistanceHypothesis(prediction, innovation, detection, distance)
NewDistanceHypothesis(p, d) ==
    LET r == DistanceHypothesis(p, d)
    IN /\ hyps' = IF r.raised = "" THEN Append(hyps, r.ret) ELSE hyps
       /\ last' = Call("DistanceHypothesis", <<d>>,
                       IF r.raised = "" THEN Ok(HRef(Len(hyps) + 1)) ELSE r)
       /\ UNCHANGED <<dicts, joints>>

\* h = a hypothesis of another scoring variant
NewHypothesis(p) ==
    /\ hyps' = Append(hyps, Hypothesis(p))
    /\ last' = Call("Hypothesis", <<>>, Ok(HRef(Len(hyps) + 1)))
    /\ UNCHANGED <<dicts, joints>>

\* self < other
Lt(self, other) ==
    /\ Comparable(self)
    /\ last' = Call("lt", <<self, other>>,
                    IF self[1] = "h" THEN DistanceHypothesis__lt__(self, other)
                    ELSE DistanceJointHypothesis__lt__(self, other))
    /\ ReadOnly

\* self <= other
Le(self, other) ==
    /\ Comparable(self)
    /\ last' = Call("le", <<self, other>>,
                    IF self[1] = "h" THEN DistanceHypothesis__le__(self, other)
                    ELSE DistanceJointHypothesis__le__(self, other))
    /\ ReadOnly

\* self == other
Eq(self, other) ==
    /\ Comparable(self)
    /\ last' = Call("eq", <<self, other>>,
                    IF self[1] = "h" THEN DistanceHypothesis__eq__(self, other)
                    ELSE DistanceJointHypothesis__eq__(self, other))
    /\ ReadOnly

\* self > other
Gt(self, other) ==
    /\ Comparable(self)
    /\ last' = Call("gt", <<self, other>>,
                    IF self[1] = "h" THEN DistanceHypothesis__gt__(self, other)
                    ELSE DistanceJointHypothesis__gt__(self, other))
    /\ ReadOnly

\* self >= other
Ge(self, other) ==
    /\ Comparable(self)
    /\ last' = Call("ge", <<self, other>>,
                    IF self[1] = "h" THEN DistanceHypothesis__ge__(self, other)
                    ELSE DistanceJointHypothesis__ge__(self, other))
    /\ ReadOnly

\* j = JointHypothesis(hypotheses), hypotheses a dict the caller has built:
\* __new__ picks the class or raises, then __init__ runs on the new object.
NewJointHypothesis(hypotheses) ==
    LET c == JointHypothesis__new__(hypotheses)
        heap == Append(dicts, hypotheses)
        r == JointHypothesis__init__(heap, c.ret, Len(heap))
    IN IF c.raised # ""
       THEN /\ last' = Call("JointHypothesis", <<hypotheses>>, c)
            /\ ReadOnly
       ELSE /\ dicts' = r.dicts
            /\ joints' = Append(joints, r.obj)
            /\ last' = Call("JointHypothesis", <<hypotheses>>,
                            Ok(JRef(Len(joints) + 1)))
            /\ UNCHANGED hyps

\* j.distance
Distance(j) ==
    /\ last' = Call("distance", <<JRef(j)>>, DistanceJointHypothesis_distance(j))
    /\ ReadOnly

\* A lookup that takes the item out of the mapping, as dict.pop does.
GetItemPop(j, k) ==
    /\ last' = Call("getitem", <<JRef(j), k>>, UserDict__getitem__(j, k))
    /\ dicts' = [dicts EXCEPT ![joints[j].data] = DictDel(@, k)]
    /\ UNCHANGED <<hyps, joints>>

\* j[k]
GetItem(j, k) ==
    /\ last' = Call("getitem", <<JRef(j), k>>, UserDict__getitem__(j, k))
    /\ ReadOnly

\* k in j
Contains(j, k) ==
    /\ last' = Call("contains", <<JRef(j), k>>, UserDict__contains__(j, k))
    /\ ReadOnly

\* list(j)
Iter(j) ==
    /\ last' = Call("iter", <<JRef(j)>>, UserDict__iter__(j))
    /\ ReadOnly

\* j[k] = h
SetItem(j, k, h) ==
    /\ dicts' = [dicts EXCEPT ![joints[j].data] = DictSet(@, k, h)]
    /\ last' = Call("setitem", <<JRef(j), k, HRef(h)>>, Ok(None))
    /\ UNCHANGED <<hyps, joints>>

\* del j[k]
DelItem(j, k) ==
    IF DictHas(Data(j), k)
    THEN /\ dicts' = [dicts EXCEPT ![joints[j].data] = DictDel(@, k)]
         /\ last' = Call("delitem", <<JRef(j), k>>, Ok(None))
         /\ UNCHANGED <<hyps, joints>>
    ELSE /\ last' = Call("delitem", <<JRef(j), k>>, Raise("KeyError"))
         /\ ReadOnly

---------------------------------------------------------------------------
(* Init: no object allocated yet *)

Init ==
    /\ hyps = <<>>
    /\ dicts = <<>>
    /\ joints = <<>>
    /\ last = Call("start", <<>>, Ok(None))

---------------------------------------------------------------------------
(* OrderSpec: a caller that allocates hypotheses of any distance and       *)
(* compares them with each other.                                          *)

OrderNext ==
    \/ \E p \in Payloads, d \in Distances :
          Len(hyps) < MaxHyps /\ NewDistanceHypothesis(p, d)
    \/ \E p \in Payloads : Len(hyps) < MaxHyps /\ NewHypothesis(p)
    \/ \E self \in HRefs, other \in HRefs : Lt(self, other)
    \/ \E self \in HRefs, other \in HRefs : Le(self, other)
    \/ \E self \in HRefs, other \in HRefs : Eq(self, other)
    \/ \E self \in HRefs, other \in HRefs : Gt(self, other)
    \/ \E self \in HRefs, other \in HRefs : Ge(self, other)

OrderSpec == Init /\ [][OrderNext]_vars

---------------------------------------------------------------------------
(* The hypotheses the callers of Spec and PairSpec allocate, in this order *)

Script ==
    << [variant |-> "DistanceHypothesis", distance |-> Float(2)],
       [variant |-> "DistanceHypothesis", distance |-> Float(-1)],
       [variant |-> "Hypothesis"] >>

ScriptDistanceHypothesis ==
    \E i \in {Len(hyps) + 1} \cap DOMAIN Script, p \in Payloads :
        /\ Script[i].variant = "DistanceHypothesis"
        /\ NewDistanceHypothesis(p, Script[i].distance)

ScriptHypothesis ==
    \E i \in {Len(hyps) + 1} \cap DOMAIN Script, p \in Payloads :
        /\ Script[i].variant = "Hypothesis"
        /\ NewHypothesis(p)

---------------------------------------------------------------------------
(* Spec: a caller that builds joint hypotheses over the hypotheses of      *)
(* Script and uses them as mappings and as scored values.                  *)

Next ==
    \/ ScriptDistanceHypothesis
    \/ ScriptHypothesis
    \/ \E hypotheses \in DictLiterals :
          Len(joints) < MaxJoints /\ NewJointHypothesis(hypotheses)
    \/ \E j \in 1..Len(joints) : Distance(j)
    \/ \E j \in 1..Len(joints), k \in Tracks : GetItem(j, k)
    \/ \E j \in 1..Len(joints), k \in Tracks : Contains(j, k)
    \/ \E j \in 1..Len(joints) : Iter(j)
    \/ \E j \in 1..Len(joints), k \in Tracks, h \in 1..Len(hyps) : SetItem(j, k, h)
    \/ \E j \in 1..Len(joints), k \in Tracks : DelItem(j, k)
    \/ \E self \in JRefs, other \in JRefs : Lt(self, other)
    \/ \E self \in JRefs, other \in JRefs : Le(self, other)
    \/ \E self \in JRefs, other \in JRefs : Eq(self, other)
    \/ \E self \in JRefs, other \in JRefs : Gt(self, other)
    \/ \E self \in JRefs, other \in JRefs : Ge(self, other)

Spec == Init /\ [][Next]_vars

---------------------------------------------------------------------------
(* PairSpec: a caller that builds two joint hypotheses over the hypotheses *)
(* of Script and compares them with each other and with the hypotheses.    *)

\* The operand pairs with a joint hypothesis on one side at least
Pairs == { pr \in Objects \X Objects : pr[1] \in JRefs \/ pr[2] \in JRefs }

PairNext ==
    \/ ScriptDistanceHypothesis
    \/ ScriptHypothesis
    \/ \E hypotheses \in DictLiterals :
          Len(joints) < 2 /\ NewJointHypothesis(hypotheses)
    \/ \E pr \in Pairs : Lt(pr[1], pr[2])
    \/ \E pr \in Pairs : Le(pr[1], pr[2])
    \/ \E pr \in Pairs : Eq(pr[1], pr[2])
    \/ \E pr \in Pairs : Gt(pr[1], pr[2])
    \/ \E pr \in Pairs : Ge(pr[1], pr[2])

PairSpec == Init /\ [][PairNext]_vars

---------------------------------------------------------------------------
(* Properties of the comparisons of DistanceHypothesis (OrderSpec)         *)

CmpOps == {"lt", "le", "eq", "gt", "ge"}

\* The DistanceHypothesis objects of the heap, and the distance of one
DHRefs == { r \in HRefs : IsDistanceHypothesis(r[2]) }
dist(r) == hyps[r[2]].distance

\* What the reversed comparison of two distances gives for each operator
Reversed(op, x, y) ==
    CASE op = "lt" -> FloatGt(x, y)
      [] op = "le" -> FloatGe(x, y)
      [] op = "eq" -> FloatEq(x, y)
      [] op = "gt" -> FloatLt(x, y)
      [] op = "ge" -> FloatLe(x, y)

\* The five comparisons of every pair are the reversed float comparisons of
\* the distances, as operators and as the calls made
FiveReversed ==
    /\ \A a \in DHRefs, b \in DHRefs :
          /\ DistanceHypothesis__gt__(a, b) = Ok(FloatLt(dist(a), dist(b)))
          /\ DistanceHypothesis__lt__(a, b) = Ok(FloatGt(dist(a), dist(b)))
          /\ DistanceHypothesis__ge__(a, b) = Ok(FloatLe(dist(a), dist(b)))
          /\ DistanceHypothesis__le__(a, b) = Ok(FloatGe(dist(a), dist(b)))
          /\ DistanceHypothesis__eq__(a, b) = Ok(FloatEq(dist(a), dist(b)))
    /\ (last.op \in CmpOps /\ last.args[1] \in DHRefs /\ last.args[2] \in DHRefs)
          => /\ last.raised = ""
             /\ last.ret = Reversed(last.op, dist(last.args[1]), dist(last.args[2]))

ExactlyOne(a, b) ==
    DistanceHypothesis__gt__(a, b).ret # DistanceHypothesis__lt__(a, b).ret

\* C1 as stated: the five comparisons are the reversed comparisons of the
\* distances, and whenever a.distance != b.distance exactly one of a > b,
\* a < b holds.
C1_AsStated ==
    /\ FiveReversed
    /\ \A a \in DHRefs, b \in DHRefs :
          FloatNe(dist(a), dist(b)) => ExactlyOne(a, b)

\* C1, amended: the five comparisons of every pair of DistanceHypothesis are
\* the reversed float comparisons of their distances, and when the distances
\* differ and neither is NaN exactly one of a > b, a < b holds.
C1_ReversedComparisons ==
    /\ FiveReversed
    /\ \A a \in DHRefs, b \in DHRefs :
          (~IsNaN(dist(a)) /\ ~IsNaN(dist(b)) /\ FloatNe(dist(a), dist(b)))
              => ExactlyOne(a, b)

\* a > b was called on two hypotheses of different distances and returned True
C1_Witness ==
    /\ last.op = "gt"
    /\ last.args[1] \in DHRefs /\ last.args[2] \in DHRefs
    /\ last.raised = ""
    /\ last.ret
    /\ FloatLt(dist(last.args[1]), dist(last.args[2]))

Reflexive(a) == DistanceHypothesis__eq__(a, a) = Ok(TRUE)

EqualBothWays ==
    \A a \in DHRefs, b \in DHRefs :
        FloatEq(dist(a), dist(b))
            => /\ DistanceHypothesis__le__(a, b) = Ok(TRUE)
               /\ DistanceHypothesis__ge__(a, b) = Ok(TRUE)

Transitive ==
    \A a \in DHRefs, b \in DHRefs, c \in DHRefs :
        (DistanceHypothesis__gt__(a, b).ret /\ DistanceHypothesis__gt__(b, c).ret)
            => DistanceHypothesis__gt__(a, c).ret

\* C10 as stated: a == a for every a; a <= b and a >= b for equal distances;
\* a > b and b > c give a > c.
C10_AsStated ==
    /\ \A a \in DHRefs : Reflexive(a)
    /\ EqualBothWays
    /\ Transitive

\* C10, amended: a == a for every a whose distance is not NaN; a <= b and
\* a >= b for all a, b of equal distances; a > b and b > c give a > c.
C10_TotalOrder ==
    /\ \A a \in DHRefs : ~IsNaN(dist(a)) => Reflexive(a)
    /\ EqualBothWays
    /\ Transitive

\* a == a was called and returned True, with a chain a > b > c on the heap
C10_Witness ==
    /\ last.op = "eq"
    /\ last.args[1] = last.args[2]
    /\ last.raised = ""
    /\ last.ret
    /\ \E a \in DHRefs, b \in DHRefs, c \in DHRefs :
          /\ DistanceHypothesis__gt__(a, b).ret
          /\ DistanceHypothesis__gt__(b, c).ret
          /\ DistanceHypothesis__gt__(a, c).ret

---------------------------------------------------------------------------
(* Properties of JointHypothesis as a mapping and of its distance (Spec)   *)

AllDistance(d) == \A i \in 1..Len(d) : IsDistanceHypothesis(d[i][2])
TrackSet(d) == { d[i][1] : i \in 1..Len(d) }
ItemSet(d) == { d[i] : i \in 1..Len(d) }

\* The sum of the distances over the set of tracks of a dict, each track once
RECURSIVE SumOverTracks(_, _)
SumOverTracks(S, d) ==
    IF S = {} THEN Float(0)
    ELSE LET k == CHOOSE t \in S : TRUE
         IN FloatAdd(hyps[DictGet(d, k)].distance, SumOverTracks(S \ {k}, d))

TotalDistance(d) == SumOverTracks(TrackSet(d), d)

C4_AsStated ==
    (last.op = "JointHypothesis" /\ last.args[1] = <<>>)
        => last.raised = "EmptyAssignment"

\* C4, amended: JointHypothesis({}) does not fail: it returns a
\* DistanceJointHypothesis over the empty mapping, whose distance is 0.
C4_EmptyMapping ==
    (last.op = "JointHypothesis" /\ last.args[1] = <<>>)
        => /\ last.raised = ""
           /\ last.ret \in JRefs
           /\ joints[last.ret[2]].cls = "DistanceJointHypothesis"
           /\ Data(last.ret[2]) = <<>>
           /\ DistanceJointHypothesis_distance(last.ret[2]) = Ok(Float(0))

\* JointHypothesis({}) was called and returned
C4_Witness ==
    /\ last.op = "JointHypothesis"
    /\ last.args[1] = <<>>
    /\ last.raised = ""

Mixed(d) ==
    /\ \E i \in 1..Len(d) : IsDistanceHypothesis(d[i][2])
    /\ \E i \in 1..Len(d) : ~IsDistanceHypothesis(d[i][2])
OtherFamily(d) ==
    /\ d # <<>>
    /\ \A i \in 1..Len(d) : ~IsDistanceHypothesis(d[i][2])

\* C5 as stated: a mixed mapping fails with MixedHypothesisFamily, a mapping of
\* one family without joint variant fails with another error (whatever the
\* code names it), and no joint hypothesis is returned.
C5_AsStated ==
    last.op = "JointHypothesis"
        => /\ Mixed(last.args[1])
                 => (last.raised = "MixedHypothesisFamily" /\ last.ret = None)
           /\ OtherFamily(last.args[1])
                 => (last.raised \notin {"", "MixedHypothesisFamily"} /\ last.ret = None)

\* C5, amended: a mixed mapping and a mapping of one family without joint
\* variant fail with the same error, NotImplementedError, and no joint
\* hypothesis is returned.
C5_NotImplemented ==
    (last.op = "JointHypothesis" /\ (Mixed(last.args[1]) \/ OtherFamily(last.args[1])))
        => /\ last.raised = "NotImplementedError"
           /\ last.ret = None

\* JointHypothesis was called on a mixed mapping and raised, and no joint
\* hypothesis exists
C5_Witness ==
    /\ last.op = "JointHypothesis"
    /\ Mixed(last.args[1])
    /\ last.raised # ""
    /\ joints = <<>>

\* C6 as stated: DistanceHypothesis with a negative distance fails with
\* InvalidScore, so every DistanceHypothesis and every DistanceJointHypothesis
\* has distance >= 0.
C6_AsStated ==
    /\ (last.op = "DistanceHypothesis" /\ FloatLt(last.args[1], Float(0)))
          => last.raised = "InvalidScore"
    /\ \A h \in DHRefs : FloatGe(dist(h), Float(0))
    /\ \A j \in 1..Len(joints) :
          AllDistance(Data(j))
              => FloatGe(DistanceJointHypothesis_distance(j).ret, Float(0))

\* C6, amended: DistanceHypothesis with a negative distance does not fail: the
\* hypothesis is created with the distance given; a DistanceJointHypothesis
\* has distance >= 0 when every hypothesis it holds has.
C6_NegativeAccepted ==
    /\ last.op = "DistanceHypothesis"
          => /\ last.raised = ""
             /\ last.ret \in DHRefs
             /\ dist(last.ret) = last.args[1]
    /\ \A j \in 1..Len(joints) :
          (/\ AllDistance(Data(j))
           /\ \A i \in 1..Len(Data(j)) :
                 FloatGe(hyps[Data(j)[i][2]].distance, Float(0)))
              => FloatGe(DistanceJointHypothesis_distance(j).ret, Float(0))

\* A hypothesis of negative distance was built and a joint hypothesis holding
\* it returned a negative distance
C6_Witness ==
    /\ \E h \in DHRefs : FloatLt(dist(h), Float(0))
    /\ last.op = "distance"
    /\ last.raised = ""
    /\ FloatLt(last.ret, Float(0))

\* The mapping a joint hypothesis was built from
Hypotheses(j) == dicts[joints[j].hypotheses]

\* C8: a joint hypothesis is a read-through view of the mapping it was built
\* from: right after construction lookup, membership and iteration give the
\* items supplied, and at all times they give the items of that mapping.
C8_ReadThrough ==
    /\ (last.op = "JointHypothesis" /\ last.raised = "")
          => LET j == last.ret[2]
                 m == last.args[1]
             IN /\ Hypotheses(j) = m
                /\ UserDict__iter__(j) = Ok(DictKeys(m))
                /\ \A k \in Tracks :
                      /\ UserDict__contains__(j, k) = Ok(DictHas(m, k))
                      /\ DictHas(m, k)
                            => UserDict__getitem__(j, k) = Ok(HRef(DictGet(m, k)))
    /\ \A j \in 1..Len(joints) :
          /\ UserDict__iter__(j) = Ok(DictKeys(Hypotheses(j)))
          /\ \A k \in Tracks :
                /\ UserDict__contains__(j, k) = Ok(DictHas(Hypotheses(j), k))
                /\ UserDict__getitem__(j, k) =
                      IF DictHas(Hypotheses(j), k)
                      THEN Ok(HRef(DictGet(Hypotheses(j), k)))
                      ELSE Raise("KeyError")
    /\ (last.op = "getitem" /\ last.raised = "")
          => last.ret = HRef(DictGet(Hypotheses(last.args[1][2]), last.args[2]))

\* j[k] returned a hypothesis of a joint hypothesis of two tracks
C8_Witness ==
    /\ last.op = "getitem"
    /\ last.raised = ""
    /\ Len(Hypotheses(last.args[1][2])) = 2

ReadOps == CmpOps \cup {"distance", "getitem", "contains", "iter"}

\* The objects allocated keep their fields and their references
FieldsKept ==
    /\ \A i \in 1..Len(hyps) : hyps'[i] = hyps[i]
    /\ \A j \in 1..Len(joints) : joints'[j] = joints[j]

\* C9 as stated: after any operation, item assignment and deletion included,
\* the fields of every hypothesis, the mapping of every joint hypothesis, its
\* distance and its one-family invariant are as they were.
C9_AsStated ==
    [][/\ FieldsKept
       /\ \A j \in 1..Len(joints) :
             /\ Data(j)' = Data(j)
             /\ DistanceJointHypothesis_distance(j)' = DistanceJointHypothesis_distance(j)
             /\ AllDistance(Data(j)) => AllDistance(Data(j))']_vars

\* C9, amended: no operation changes the fields of a hypothesis or the dict a
\* joint hypothesis refers to, and every operation other than item assignment
\* and deletion (construction, comparison, distance access, lookup,
\* membership, iteration) leaves the mapping, the distance and the family of
\* every joint hypothesis as they were.
C9_ReadOnlyOperations ==
    [][/\ FieldsKept
       /\ last'.op \notin {"setitem", "delitem"}
             => \A j \in 1..Len(joints) :
                  /\ Data(j)' = Data(j)
                  /\ DistanceJointHypothesis_distance(j)'
                        = DistanceJointHypothesis_distance(j)
                  /\ AllDistance(Data(j)) <=> AllDistance(Data(j))']_vars

\* Item assignment has put a hypothesis of another family into a joint
\* hypothesis, and its distance was then read
C9_Witness ==
    /\ last.op = "distance"
    /\ last.raised = "AttributeError"
    /\ ~AllDistance(Data(last.args[1][2]))

---------------------------------------------------------------------------
(* Properties of the construction dispatch and of the comparisons of and   *)
(* across joint hypotheses (PairSpec)                                      *)

\* The distance of an object that has one: the field of a DistanceHypothesis,
\* the sum over the tracks of a joint hypothesis
ObjectDistance(o) ==
    IF o[1] = "h" THEN hyps[o[2]].distance ELSE TotalDistance(Data(o[2]))

HasDistance(o) ==
    IF o[1] = "h" THEN IsDistanceHypothesis(o[2]) ELSE AllDistance(Data(o[2]))

\* C3: a mapping whose values are all DistanceHypothesis gives a
\* DistanceJointHypothesis, and two of them compare by the reversed comparison
\* of their summed distances: j1 > j2 iff j1.distance < j2.distance, and so
\* for <, <=, >=, ==.
C3_DispatchAndOrder ==
    /\ (last.op = "JointHypothesis" /\ AllDistance(last.args[1]))
          => /\ last.raised = ""
             /\ last.ret \in JRefs
             /\ joints[last.ret[2]].cls = "DistanceJointHypothesis"
    /\ \A a \in JRefs, b \in JRefs :
          (HasDistance(a) /\ HasDistance(b))
              => LET x == ObjectDistance(a)
                     y == ObjectDistance(b)
                 IN /\ DistanceJointHypothesis__gt__(a, b) = Ok(FloatLt(x, y))
                    /\ DistanceJointHypothesis__lt__(a, b) = Ok(FloatGt(x, y))
                    /\ DistanceJointHypothesis__ge__(a, b) = Ok(FloatLe(x, y))
                    /\ DistanceJointHypothesis__le__(a, b) = Ok(FloatGe(x, y))
                    /\ DistanceJointHypothesis__eq__(a, b) = Ok(FloatEq(x, y))
    /\ (/\ last.op \in CmpOps
        /\ last.args[1] \in JRefs /\ last.args[2] \in JRefs
        /\ HasDistance(last.args[1]) /\ HasDistance(last.args[2]))
          => /\ last.raised = ""
             /\ last.ret = Reversed(last.op, ObjectDistance(last.args[1]),
                                    ObjectDistance(last.args[2]))

\* j1 > j2 was called on two joint hypotheses of two tracks each, and
\* returned True: j1 has the smaller sum
C3_Witness ==
    /\ last.op = "gt"
    /\ last.args[1] \in JRefs /\ last.args[2] \in JRefs
    /\ Len(Data(last.args[1][2])) = 2 /\ Len(Data(last.args[2][2])) = 2
    /\ last.raised = ""
    /\ last.ret
    /\ FloatLt(ObjectDistance(last.args[1]), ObjectDistance(last.args[2]))

\* C7 as stated: a comparison of two values of different variants fails with
\* TypeMismatch.
C7_AsStated ==
    (last.op \in CmpOps /\ ClassOf(last.args[1]) # ClassOf(last.args[2]))
        => last.raised = "TypeMismatch"

\* C7, amended: a comparison of a DistanceHypothesis or DistanceJointHypothesis
\* with a value of another variant does not fail with TypeMismatch: when the
\* other value has a distance (a DistanceHypothesis against a
\* DistanceJointHypothesis, or the reverse) it returns the reversed comparison
\* of the two distances, and when it has none it fails with AttributeError.
C7_CrossVariant ==
    (last.op \in CmpOps /\ ClassOf(last.args[1]) # ClassOf(last.args[2]))
        => IF HasDistance(last.args[1]) /\ HasDistance(last.args[2])
           THEN /\ last.raised = ""
                /\ last.ret = Reversed(last.op, ObjectDistance(last.args[1]),
                                       ObjectDistance(last.args[2]))
           ELSE /\ last.raised = "AttributeError"
                /\ last.ret = None

\* h < j was called on a DistanceHypothesis and a DistanceJointHypothesis and
\* returned True
C7_Witness ==
    /\ last.op = "lt"
    /\ ClassOf(last.args[1]) = "DistanceHypothesis"
    /\ ClassOf(last.args[2]) = "DistanceJointHypothesis"
    /\ last.raised = ""
    /\ last.ret

====
